---- MODULE Spec2Model ----
(***************************************************************************)
(* The in-memory trip collection of app/routes.py and its six handlers:    *)
(* get_trips, get_trip, create_trip, update_trip, delete_trip, trips_stats.*)
(* Each handler is one atomic action (single-threaded request/response).   *)
(*                                                                         *)
(* JSON values are records [k, n, s]: k is the Python type of the value,   *)
(* n the number in hundredths (3 is 300, 4.5 is 450), s the text of a      *)
(* string.  `req' and `resp' record the last request and its response.     *)
(***************************************************************************)
EXTENDS Integers, Sequences, FiniteSets, TLC

VARIABLES trips, req, resp, assigned

vars == <<trips, req, resp, assigned>>

\* Bounds of the model.
MaxTrips == 3
MaxId == 3

\* Numbers are kept in hundredths: round(x, 2) keeps two decimals.
Scale == 100

----------------------------------------------------------------------------
\* JSON / Python values

IntV(i) == [k |-> "int", n |-> i * Scale, s |-> ""]
FltV(h) == [k |-> "float", n |-> h, s |-> ""]
StrV(x) == [k |-> "str", n |-> 0, s |-> x]
Null == [k |-> "null", n |-> 0, s |-> ""]
\* the outcome of a conversion that raises (ValueError / TypeError)
Raised == [k |-> "raised", n |-> 0, s |-> ""]

IsNum(v) == v.k \in {"int", "float"}

\* the strings int() accepts, with the integer each one denotes
IntLiteral == ("7" :> 7)
\* the strings float() accepts, with the number (in hundredths) each denotes
FloatLiteral == ("7" :> 700) @@ ("4.5" :> 450)

\* truncation toward zero of a number given in hundredths
Trunc(n) == IF n >= 0 THEN n \div Scale ELSE -((-n) \div Scale)

\* Python int(v)
PyInt(v) ==
  CASE v.k = "int" -> v
    [] v.k = "float" -> IntV(Trunc(v.n))
    [] v.k = "str" -> IF v.s \in DOMAIN IntLiteral THEN IntV(IntLiteral[v.s]) ELSE Raised
    [] OTHER -> Raised

\* Python float(v)
PyFloat(v) ==
  CASE v.k = "int" -> FltV(v.n)
    [] v.k = "float" -> v
    [] v.k = "str" -> IF v.s \in DOMAIN FloatLiteral THEN FltV(FloatLiteral[v.s]) ELSE Raised
    [] OTHER -> Raised

\* code-point order of the strings that occur in the model
StrRank ==
  ("" :> 0) @@ ("4.5" :> 1) @@ ("7" :> 2) @@ ("Hilton" :> 3) @@ ("Oslo" :> 4) @@
  ("Paris" :> 5) @@ ("Ritz" :> 6) @@ ("Rome" :> 7) @@ ("abc" :> 8) @@ ("x" :> 9)

\* a < b raises TypeError unless both are numbers or both are strings
Comparable(a, b) == (IsNum(a) /\ IsNum(b)) \/ (a.k = "str" /\ b.k = "str")

\* Python a < b on comparable values
Less(a, b) ==
  IF IsNum(a) /\ IsNum(b) THEN a.n < b.n
  ELSE StrRank[a.s] < StrRank[b.s]

----------------------------------------------------------------------------
\* Request bodies

EmptyObj == [f \in {} |-> Null]

Obj(d) == [kind |-> "object", data |-> d]
NullBody == [kind |-> "null", data |-> EmptyObj]
Unparseable == [kind |-> "unparseable", data |-> EmptyObj]

Payloads == <<
  \* 1: the spec's first example
  Obj([destination |-> StrV("Paris"), days |-> IntV(3), price |-> FltV(50000),
       hotel |-> StrV("Ritz"), rating |-> FltV(450)]),
  \* 2: all fields present, numeric fields in other types
  Obj([destination |-> StrV("Oslo"), days |-> FltV(750), price |-> IntV(300),
       hotel |-> StrV("Hilton"), rating |-> StrV("4.5")]),
  \* 3: all fields present, days malformed
  Obj([destination |-> StrV("Rome"), days |-> StrV("abc"), price |-> FltV(30000),
       hotel |-> StrV("Hilton"), rating |-> FltV(400)]),
  \* 4: hotel missing
  Obj([destination |-> StrV("Rome"), days |-> IntV(5), price |-> FltV(30000),
       rating |-> FltV(400)]),
  \* 5: {}
  Obj(EmptyObj),
  \* 6: one field, an "id" key and an unknown key
  Obj([price |-> FltV(30000), id |-> IntV(1), foo |-> StrV("x")]),
  \* 7: one field, value of the wrong type
  Obj([days |-> StrV("abc")]),
  \* 8: the JSON value null
  NullBody,
  \* 9: a body that is not JSON
  Unparseable
>>

CreateBodies == {1, 2, 3, 4, 5, 8, 9}
UpdateBodies == {5, 6, 7, 8, 9}
Ids == 1 .. MaxId
SortArgs == {"", "price", "days", "bogus"}
OrderArgs == {"asc", "desc"}


----------------------------------------------------------------------------
\* Responses

TripFields == {"id", "destination", "days", "price", "hotel", "rating"}

NoTrip == [id |-> 0, destination |-> Null, days |-> Null, price |-> Null,
           hotel |-> Null, rating |-> Null]
NoAgg == [min |-> Null, max |-> Null, avg |-> Null]
NoStats == [days |-> NoAgg, price |-> NoAgg, rating |-> NoAgg]

Response(status, kind, field, trip, list, stats) ==
  [status |-> status, kind |-> kind, field |-> field, trip |-> trip,
   list |-> list, stats |-> stats]

Fail(status, kind, field) == Response(status, kind, field, NoTrip, <<>>, NoStats)

\* {"error": "Поездка не найдена"}, 404
NotFound == Fail(404, "NotFound", "")
\* {"error": "Некорректный JSON"}, 400
BadJson == Fail(400, "InvalidJson", "")
\* {"error": "Отсутствует поле: <field>"}, 400
MissingField(field) == Fail(400, "ValidationError", field)
\* {"error": "Нет данных"}, 400
NoData == Fail(400, "NoData", "")
\* request.get_json() aborts the request with 400 Bad Request
BadRequest == Fail(400, "MalformedRequest", "")
\* an exception leaves the handler: 500 Internal Server Error
Unhandled == Fail(500, "Unhandled", "")

NoReq == [op |-> "none", id |-> 0, body |-> 0, sort |-> "", order |-> ""]
Request(op, id, body, sort, order) ==
  [op |-> op, id |-> id, body |-> body, sort |-> sort, order |-> order]

----------------------------------------------------------------------------
\* Helpers over the collection

RECURSIVE MaxOfIds(_)
\* max(t["id"] for t in trips), for a non-empty list
MaxOfIds(ts) ==
  IF Len(ts) = 1 THEN ts[1].id
  ELSE LET m == MaxOfIds(Tail(ts)) IN IF ts[1].id >= m THEN ts[1].id ELSE m

\* the id taken from the length of the list instead of the largest id
_get_next_id_len(ts) == Len(ts) + 1

_get_next_id(ts) == IF ts = <<>> THEN 1 ELSE MaxOfIds(ts) + 1

\* the lookup falling back to the first trip instead of None
FindTripOrFirst(ts, trip_id) ==
  IF \E i \in DOMAIN ts : ts[i].id = trip_id
  THEN CHOOSE i \in DOMAIN ts : ts[i].id = trip_id /\ \A j \in 1 .. (i - 1) : ts[j].id # trip_id
  ELSE IF ts = <<>> THEN 0 ELSE 1

\* next((t for t in trips if t["id"] == trip_id), None): index of the trip, 0 for None
FindTrip(ts, trip_id) ==
  IF \E i \in DOMAIN ts : ts[i].id = trip_id
  THEN CHOOSE i \in DOMAIN ts : ts[i].id = trip_id /\ \A j \in 1 .. (i - 1) : ts[j].id # trip_id
  ELSE 0

----------------------------------------------------------------------------
\* POST /trips

Required == <<"destination", "days", "price", "hotel", "rating">>

RECURSIVE FirstMissing(_, _)
\* the first field of the required list that is not in data, "" when none is missing
FirstMissing(fields, data) ==
  IF fields = <<>> THEN ""
  ELSE IF Head(fields) \notin DOMAIN data THEN Head(fields)
  ELSE FirstMissing(Tail(fields), data)

\* `not data': None and {} are falsy
Falsy(body) == body.kind = "null" \/ (body.kind = "object" /\ DOMAIN body.data = {})

NewTrip(ts, data) ==
  [id |-> _get_next_id(ts),
   destination |-> data.destination,
   days |-> PyInt(data.days),
   price |-> PyFloat(data.price),
   hotel |-> data.hotel,
   rating |-> PyFloat(data.rating)]

\* the new trip put in front of the list instead of behind it
create_trip_front(ts, body) ==
  IF body.kind = "unparseable" THEN [trips |-> ts, resp |-> BadRequest]
  ELSE IF Falsy(body) THEN [trips |-> ts, resp |-> BadJson]
  ELSE IF FirstMissing(Required, body.data) # ""
    THEN [trips |-> ts, resp |-> MissingField(FirstMissing(Required, body.data))]
  ELSE LET new_trip == NewTrip(ts, body.data) IN
    IF Raised \in {new_trip.days, new_trip.price, new_trip.rating}
    THEN [trips |-> ts, resp |-> Unhandled]
    ELSE [trips |-> <<new_trip>> \o ts,
          resp |-> Response(201, "Created", "", new_trip, <<>>, NoStats)]

create_trip(ts, body) ==
  IF body.kind = "unparseable" THEN [trips |-> ts, resp |-> BadRequest]
  ELSE IF Falsy(body) THEN [trips |-> ts, resp |-> BadJson]
  ELSE IF FirstMissing(Required, body.data) # ""
    THEN [trips |-> ts, resp |-> MissingField(FirstMissing(Required, body.data))]
  ELSE LET new_trip == NewTrip(ts, body.data) IN
    IF Raised \in {new_trip.days, new_trip.price, new_trip.rating}
    THEN [trips |-> ts, resp |-> Unhandled]
    ELSE [trips |-> Append(ts, new_trip),
          resp |-> Response(201, "Created", "", new_trip, <<>>, NoStats)]

----------------------------------------------------------------------------
\* PUT /trips/<id>

\* the field list with "price" left out
UpdateFieldsNoPrice == {"destination", "days", "hotel", "rating"}

UpdateFields == {"destination", "days", "price", "hotel", "rating"}

\* every key of the payload written to the trip, "id" included
ApplyUpdateAnyKey(trip, data) ==
  [f \in DOMAIN trip |->
     IF f \in DOMAIN data
     THEN IF f = "id" THEN data[f].n \div Scale ELSE data[f]
     ELSE trip[f]]

\* for field in [...]: if field in data: trip[field] = data[field]
ApplyUpdate(trip, data) ==
  [f \in DOMAIN trip |->
     IF f \in UpdateFields /\ f \in DOMAIN data THEN data[f] ELSE trip[f]]

update_trip(ts, trip_id, body) ==
  IF body.kind = "unparseable" THEN [trips |-> ts, resp |-> BadRequest]
  ELSE LET i == FindTrip(ts, trip_id) IN
    IF i = 0 THEN [trips |-> ts, resp |-> NotFound]
    \* `field in None' raises TypeError
    ELSE IF body.kind = "null" THEN [trips |-> ts, resp |-> Unhandled]
    ELSE LET trip == ApplyUpdate(ts[i], body.data) IN
      [trips |-> [ts EXCEPT ![i] = trip],
       resp |-> Response(200, "Updated", "", trip, <<>>, NoStats)]

----------------------------------------------------------------------------
\* DELETE /trips/<id>

\* the filter inverted
KeepOnly(ts, trip_id) == SelectSeq(ts, LAMBDA t : t.id = trip_id)

\* [t for t in trips if t["id"] != trip_id]
Keep(ts, trip_id) == SelectSeq(ts, LAMBDA t : t.id # trip_id)

delete_trip(ts, trip_id) ==
  LET after == Keep(ts, trip_id) IN
  IF Len(after) = Len(ts) THEN [trips |-> after, resp |-> NotFound]
  ELSE [trips |-> after, resp |-> Response(200, "Deleted", "", NoTrip, <<>>, NoStats)]

----------------------------------------------------------------------------
\* GET /trips/<id>

get_trip(ts, trip_id) ==
  LET i == FindTrip(ts, trip_id) IN
  IF i = 0 THEN NotFound ELSE Response(200, "Trip", "", ts[i], <<>>, NoStats)

----------------------------------------------------------------------------
\* GET /trips?sort=&order=

\* key=lambda x: x.get(sort)
Key(t, sort) == IF sort = "id" THEN IntV(t.id) ELSE t[sort]

RECURSIVE InsertSorted(_, _, _)
\* t goes behind every element that is not greater than it
InsertSorted(sorted, t, sort) ==
  IF sorted = <<>> THEN <<t>>
  ELSE IF Less(Key(t, sort), Key(Head(sorted), sort)) THEN <<t>> \o sorted
  ELSE <<Head(sorted)>> \o InsertSorted(Tail(sorted), t, sort)

RECURSIVE StableSort(_, _)
StableSort(ts, sort) ==
  IF ts = <<>> THEN <<>>
  ELSE InsertSorted(StableSort(SubSeq(ts, 1, Len(ts) - 1), sort), ts[Len(ts)], sort)

Reverse(ts) == IF ts = <<>> THEN <<>> ELSE [i \in 1 .. Len(ts) |-> ts[Len(ts) + 1 - i]]

\* list.sort(key=..., reverse=...): reverse=True keeps equal elements in their original order
ListSort(ts, sort, reverse) ==
  IF reverse THEN Reverse(StableSort(Reverse(ts), sort)) ELSE StableSort(ts, sort)

\* a comparison between two keys raises TypeError
SortRaises(ts, sort) ==
  \E i, j \in DOMAIN ts : i # j /\ ~Comparable(Key(ts[i], sort), Key(ts[j], sort))

get_trips(ts, sort, order) ==
  IF sort # "" /\ Len(ts) > 0 /\ sort \in DOMAIN ts[1]
  THEN IF SortRaises(ts, sort) THEN Unhandled
       ELSE Response(200, "List", "", NoTrip, ListSort(ts, sort, order = "desc"), NoStats)
  ELSE Response(200, "List", "", NoTrip, ts, NoStats)

----------------------------------------------------------------------------
\* GET /trips/stats

StatFields == {"days", "price", "rating"}

Column(ts, f) == [i \in DOMAIN ts |-> ts[i][f]]

RECURSIVE MinOf(_)
\* min(): the first smallest element
MinOf(vs) ==
  IF Len(vs) = 1 THEN vs[1]
  ELSE LET m == MinOf(SubSeq(vs, 1, Len(vs) - 1)) IN
       IF Less(vs[Len(vs)], m) THEN vs[Len(vs)] ELSE m

RECURSIVE MaxOf(_)
\* max(): the first largest element
MaxOf(vs) ==
  IF Len(vs) = 1 THEN vs[1]
  ELSE LET m == MaxOf(SubSeq(vs, 1, Len(vs) - 1)) IN
       IF Less(m, vs[Len(vs)]) THEN vs[Len(vs)] ELSE m

RECURSIVE SumOf(_)
SumOf(vs) == IF vs = <<>> THEN 0 ELSE vs[1].n + SumOf(Tail(vs))

\* a / b rounded to the nearest integer, halves to the even neighbour (a >= 0, b > 0)
RoundDiv(a, b) ==
  LET q == a \div b
      r == a % b
  IN IF 2 * r < b THEN q
     ELSE IF 2 * r > b THEN q + 1
     ELSE IF q % 2 = 0 THEN q ELSE q + 1

\* {"min": min(v), "max": max(v), "avg": round(sum(v) / len(v), 2)}
Agg(vs) ==
  [min |-> MinOf(vs), max |-> MaxOf(vs), avg |-> FltV(RoundDiv(SumOf(vs), Len(vs)))]

\* sum() over a value that is not a number raises TypeError
StatsRaises(ts) == \E i \in DOMAIN ts : \E f \in StatFields : ~IsNum(ts[i][f])

trips_stats(ts) ==
  IF ts = <<>> THEN NoData
  ELSE IF StatsRaises(ts) THEN Unhandled
  ELSE Response(200, "Stats", "", NoTrip, <<>>,
                [days |-> Agg(Column(ts, "days")),
                 price |-> Agg(Column(ts, "price")),
                 rating |-> Agg(Column(ts, "rating"))])

----------------------------------------------------------------------------
\* The state machine

Init ==
  /\ trips = <<>>
  /\ req = NoReq
  /\ resp = Fail(0, "none", "")
  /\ assigned = 0

\* `assigned' is the largest id a create has handed out so far
CreateTrip(b) ==
  LET r == create_trip(trips, Payloads[b]) IN
  /\ r.resp.status = 201 => Len(trips) < MaxTrips /\ r.resp.trip.id <= MaxId
  /\ trips' = r.trips
  /\ req' = Request("create", 0, b, "", "")
  /\ resp' = r.resp
  /\ assigned' = IF r.resp.status = 201 /\ r.resp.trip.id > assigned
                 THEN r.resp.trip.id ELSE assigned

UpdateTrip(id, b) ==
  LET r == update_trip(trips, id, Payloads[b]) IN
  /\ trips' = r.trips
  /\ req' = Request("update", id, b, "", "")
  /\ resp' = r.resp
  /\ UNCHANGED assigned

DeleteTrip(id) ==
  LET r == delete_trip(trips, id) IN
  /\ trips' = r.trips
  /\ req' = Request("delete", id, 0, "", "")
  /\ resp' = r.resp
  /\ UNCHANGED assigned

GetTrip(id) ==
  /\ req' = Request("get", id, 0, "", "")
  /\ resp' = get_trip(trips, id)
  /\ UNCHANGED <<trips, assigned>>

GetTrips(sort, order) ==
  /\ req' = Request("list", 0, 0, sort, order)
  /\ resp' = get_trips(trips, sort, order)
  /\ UNCHANGED <<trips, assigned>>

TripsStats ==
  /\ req' = Request("stats", 0, 0, "", "")
  /\ resp' = trips_stats(trips)
  /\ UNCHANGED <<trips, assigned>>

Next ==
  \/ \E b \in CreateBodies : CreateTrip(b)
  \/ \E id \in Ids, b \in UpdateBodies : UpdateTrip(id, b)
  \/ \E id \in Ids : DeleteTrip(id)
  \/ \E id \in Ids : GetTrip(id)
  \/ \E sort \in SortArgs, order \in OrderArgs : GetTrips(sort, order)
  \/ TripsStats

Spec == Init /\ [][Next]_vars

----------------------------------------------------------------------------
\* Vocabulary of the properties

StoredIds == {trips[i].id : i \in DOMAIN trips}
Present(id) == id \in StoredIds
Body(r) == Payloads[r.body]
IsObject(r) == Body(r).kind = "object"
Created(r, a) == r.op = "create" /\ a.status = 201
TheFive == {"destination", "days", "price", "hotel", "rating"}
\* a <= b, false when Python could not compare the two
Leq(a, b) == Comparable(a, b) /\ ~Less(b, a)
Position(t) == CHOOSE k \in DOMAIN trips : trips[k] = t

----------------------------------------------------------------------------
\* C1: in every reachable state the ids of the stored trips are pairwise
\* distinct and every id is a positive integer.
IdsUniquePositive ==
  \A i \in DOMAIN trips :
    /\ trips[i].id \in Nat
    /\ trips[i].id > 0
    /\ \A j \in DOMAIN trips : i # j => trips[i].id # trips[j].id

\* an update whose payload carries an "id" key was applied next to another trip
IdPayloadApplied ==
  /\ Len(trips) >= 2
  /\ req.op = "update" /\ req.body = 6 /\ req.id = 2
  /\ resp.status = 200
  /\ Present(1)

\* C2: a successful create gives the new trip id 1 on the empty collection and
\* (largest stored id) + 1 otherwise, appends it as the last element and
\* leaves every stored trip as it was.
CreateAppendsNextId ==
  [][Created(req', resp') =>
       LET expected == IF StoredIds = {} THEN 1
                       ELSE (CHOOSE m \in StoredIds : \A x \in StoredIds : x <= m) + 1
       IN /\ resp'.trip.id = expected
          /\ Len(trips') = Len(trips) + 1
          /\ trips'[Len(trips')] = resp'.trip
          /\ \A i \in DOMAIN trips : trips'[i] = trips[i]]_vars

\* a create on a collection with a hole below its largest id
CreatedAboveHole ==
  /\ Created(req, resp)
  /\ Len(trips) = 2
  /\ resp.trip.id = 3
  /\ trips[2] = resp.trip

\* C3 as stated: the id a successful create assigns is greater than every id
\* assigned by an earlier successful create.
IdsNeverReused ==
  [][Created(req', resp') => resp'.trip.id > assigned]_vars

\* C3 amended: the id a successful create assigns is greater than the id of
\* every trip stored at that moment, and the stored ids increase strictly in
\* insertion order.
IdsAboveStored ==
  /\ [](\A i, j \in DOMAIN trips : i < j => trips[i].id < trips[j].id)
  /\ [][Created(req', resp') => \A x \in StoredIds : resp'.trip.id > x]_vars

\* a create handed out an id below one that was assigned before
IdReassigned ==
  /\ Created(req, resp)
  /\ resp.trip.id < assigned

\* C4: delete(id) of a stored id removes exactly that trip, keeps the others
\* in order and confirms; delete of an absent id, and so a repeated delete,
\* returns NotFound and changes nothing.
DeleteRemovesExactlyOne ==
  [][req'.op = "delete" =>
       /\ IF Present(req'.id)
          THEN /\ \E k \in DOMAIN trips :
                    /\ trips[k].id = req'.id
                    /\ trips' = SubSeq(trips, 1, k - 1) \o SubSeq(trips, k + 1, Len(trips))
               /\ Len(trips') = Len(trips) - 1
               /\ resp'.status = 200 /\ resp'.kind = "Deleted"
          ELSE resp' = NotFound /\ trips' = trips
       /\ (req.op = "delete" /\ resp.status = 200 /\ req'.id = req.id)
            => (resp' = NotFound /\ trips' = trips)]_vars

\* the middle one of three trips was deleted
MiddleDeleted ==
  /\ req.op = "delete" /\ req.id = 2 /\ resp.status = 200
  /\ Len(trips) = 2 /\ trips[1].id = 1 /\ trips[2].id = 3

\* C5 as stated: update of an absent id returns NotFound for every body and
\* leaves the collection as it was.
UpdateAbsentNotFound ==
  [][(req'.op = "update" /\ ~Present(req'.id)) =>
       (resp' = NotFound /\ trips' = trips)]_vars

\* C5 amended: update of an absent id leaves the collection as it was; it
\* returns NotFound for every body that parses (an object, {} or null) and
\* the 400 of the JSON parser for a body that does not parse.
UpdateAbsentUnchanged ==
  [][(req'.op = "update" /\ ~Present(req'.id)) =>
       /\ trips' = trips
       /\ resp' = IF Body(req').kind = "unparseable" THEN BadRequest ELSE NotFound]_vars

\* an update with a field in its payload missed its trip
UpdateMissed ==
  /\ req.op = "update" /\ req.body = 6 /\ ~Present(req.id)
  /\ resp = NotFound
  /\ Len(trips) >= 2

\* C6: update of a stored id with an object payload sets exactly the payload's
\* fields among the five, keeps the id, the other fields, the other trips and
\* the order, and returns the updated trip.
UpdateSetsOnlyGiven ==
  [][(req'.op = "update" /\ IsObject(req') /\ Present(req'.id)) =>
       LET data == Body(req').data
           k == CHOOSE k \in DOMAIN trips : trips[k].id = req'.id
       IN /\ Len(trips') = Len(trips)
          /\ \A i \in DOMAIN trips : i # k => trips'[i] = trips[i]
          /\ DOMAIN trips'[k] = TripFields
          /\ trips'[k].id = req'.id
          /\ \A f \in TheFive :
               trips'[k][f] = IF f \in DOMAIN data THEN data[f] ELSE trips[k][f]
          /\ resp'.status = 200
          /\ resp'.trip = trips'[k]]_vars

\* the Paris trip got a new price from a payload that also has "id" and "foo"
PriceUpdated ==
  /\ req.op = "update" /\ req.body = 6 /\ resp.status = 200
  /\ Len(trips) >= 2
  /\ resp.trip.destination = StrV("Paris")
  /\ resp.trip.price = FltV(30000)
  /\ resp.trip.id = req.id

\* C7: list never changes the collection; with a sort field of the trips it
\* returns all stored trips ordered by that field (non-increasing for "desc",
\* non-decreasing otherwise), equal keys in insertion order; without one, or
\* with an unknown one, it returns the insertion order.
ListSortedStable ==
  [][req'.op = "list" =>
       LET out == resp'.list
           f == req'.sort
       IN /\ trips' = trips
          /\ resp'.status = 200
          /\ IF f \in TripFields
             THEN /\ Len(out) = Len(trips)
                  /\ {out[i] : i \in DOMAIN out} = {trips[i] : i \in DOMAIN trips}
                  /\ \A i, j \in DOMAIN out : i < j =>
                       /\ IF req'.order = "desc"
                          THEN Leq(Key(out[j], f), Key(out[i], f))
                          ELSE Leq(Key(out[i], f), Key(out[j], f))
                       /\ (Key(out[i], f).n = Key(out[j], f).n /\ Key(out[i], f).s = Key(out[j], f).s)
                            => Position(out[i]) < Position(out[j])
             ELSE out = trips]_vars

\* C8: create with an object that lacks one of the five required fields
\* fails with a ValidationError that names a missing field, and stores nothing.
CreateMissingRejected ==
  [][(req'.op = "create" /\ IsObject(req') /\ ~(TheFive \subseteq DOMAIN Body(req').data)) =>
       /\ resp'.status = 400
       /\ resp'.kind = "ValidationError"
       /\ resp'.field \in TheFive \ DOMAIN Body(req').data
       /\ trips' = trips]_vars

\* C9: stats fails with NoData exactly on the empty collection, otherwise it
\* returns min, max and rounded average of days, price and rating; it never
\* changes the collection.
StatsAlwaysAnswers ==
  [][req'.op = "stats" =>
       /\ trips' = trips
       /\ (resp' = NoData) <=> (trips = <<>>)
       /\ trips # <<>> =>
            /\ resp'.status = 200
            /\ \A f \in {"days", "price", "rating"} :
                 LET ns == {trips[i][f].n : i \in DOMAIN trips}
                     a == resp'.stats[f]
                 IN /\ a.min.n \in ns /\ \A x \in ns : a.min.n <= x
                    /\ a.max.n \in ns /\ \A x \in ns : x <= a.max.n
                    /\ 2 * (a.avg.n * Len(trips) - SumOf(Column(trips, f))) <= Len(trips)
                    /\ 2 * (SumOf(Column(trips, f)) - a.avg.n * Len(trips)) <= Len(trips)]_vars

\* C10: create with all five fields but a days, price or rating that cannot
\* be converted fails with a ValidationError (status 400) and stores nothing;
\* a successful create stores an integer days and float price and rating.
CreateMalformedRejected ==
  [][(req'.op = "create" /\ IsObject(req') /\ TheFive \subseteq DOMAIN Body(req').data) =>
       LET data == Body(req').data IN
       IF PyInt(data.days) = Raised \/ PyFloat(data.price) = Raised \/ PyFloat(data.rating) = Raised
       THEN resp'.status = 400 /\ resp'.kind = "ValidationError" /\ trips' = trips
       ELSE /\ resp'.status = 201
            /\ resp'.trip.days.k = "int"
            /\ resp'.trip.price.k = "float"
            /\ resp'.trip.rating.k = "float"]_vars

====
